---- MODULE Spec2Model ----
(***************************************************************************)
(* A model of the export parser of ctypes_wrapper: the character cursor    *)
(* (ExportTraverser), the comment/tag scanner (parse_comment), the two     *)
(* scanning phases of parse_cpp_file, the type classifier (CppType.create) *)
(* and the drivers that fill the registry (parse_cpp_exports).             *)
(*                                                                         *)
(* Source text, tokens and names are strings; a character is a string of   *)
(* length one.  One step of the model is one iteration of one loop of the  *)
(* source.                                                                 *)
(***************************************************************************)
EXTENDS Naturals, Sequences, FiniteSets, TLC

VARIABLES
    api,            \* which entry point the caller uses
    files,          \* the source files: a sequence of [path, text]
    order,          \* the order in which the driver visits the files
    fi,             \* index into order: the driver's for-loop
    pc,             \* position in the code
    handle,         \* number of characters of the open file already read
    line,           \* ExportTraverser.line
    position,       \* ExportTraverser.position
    phase,          \* the loop that called parse_comment
    current,        \* in-progress token
    chunks,         \* completed tokens
    tags,           \* tag list of the type being accumulated
    curtag,         \* parse_comment's in-progress tag
    angle_nesting,
    curve_nesting,
    funname,
    restype,
    all_args,
    all_functions,  \* the registry
    error           \* the exception that left the call, or NoError

vars == <<api, files, order, fi, pc, handle, line, position, phase, current,
          chunks, tags, curtag, angle_nesting, curve_nesting, funname,
          restype, all_args, all_functions, error>>

----------------------------------------------------------------------------
(* Strings *)

Ch(s, i) == SubSeq(s, i, i)

LastCh(s) == SubSeq(s, Len(s), Len(s))

\* str.isspace() for one character
IsSpace(c) == c \in {" ", "\n", "\t"}

StartsWith(s, p) == Len(s) >= Len(p) /\ SubSeq(s, 1, Len(p)) = p

EndsWith(s, p) == Len(s) >= Len(p) /\ SubSeq(s, Len(s) - Len(p) + 1, Len(s)) = p

RECURSIVE LStrip(_)
LStrip(s) == IF s # "" /\ IsSpace(Head(s)) THEN LStrip(Tail(s)) ELSE s

RECURSIVE RStrip(_)
RStrip(s) ==
    IF s # "" /\ IsSpace(LastCh(s)) THEN RStrip(SubSeq(s, 1, Len(s) - 1)) ELSE s

\* " ".join(parts)
RECURSIVE Join(_)
Join(parts) ==
    IF parts = <<>> THEN ""
    ELSE IF Len(parts) = 1 THEN parts[1]
    ELSE parts[1] \o " " \o Join(Tail(parts))

\* export_regex.match(line): ^\s*//\s*\[\[export\]\]
MatchExport(l) ==
    LET a == LStrip(l)
    IN  /\ StartsWith(a, "//")
        /\ StartsWith(LStrip(SubSeq(a, 3, Len(a))), "[[export]]")

----------------------------------------------------------------------------
(* CppType.create *)

\* while x and x.startswith("*"): pointers += 1; x = x[1:].lstrip()
RECURSIVE StripLeft(_)
StripLeft(f) ==
    IF f.x # "" /\ StartsWith(f.x, "*")
    THEN StripLeft([f EXCEPT !.x = LStrip(Tail(f.x)), !.pointers = @ + 1])
    ELSE f

\* while x and x.endswith("*"): right_pointers = True; pointers += 1; x = x[:-1].rstrip()
RECURSIVE StripRight(_)
StripRight(f) ==
    IF f.x # "" /\ EndsWith(f.x, "*")
    THEN StripRight([f EXCEPT !.x = RStrip(SubSeq(f.x, 1, Len(f.x) - 1)),
                              !.pointers = @ + 1,
                              !.right_pointers = TRUE])
    ELSE f

\* the words that the classifier drops from the base type
IsQualifier(x) == x = "" \/ x = "const"

\* the guard of the pointer parsing failure
PointerGuard(right_pointers, base_type) == right_pointers /\ Len(base_type) # 0

\* one iteration of "for x in fragments"
ClassifyFragment(acc, frag) ==
    LET f == StripRight(StripLeft([x |-> frag, pointers |-> acc.pointers,
                                   right_pointers |-> acc.right_pointers]))
        next == [acc EXCEPT !.pointers = f.pointers,
                            !.right_pointers = f.right_pointers]
    IN  IF acc.raised THEN acc
        ELSE IF IsQualifier(f.x) THEN next
        ELSE IF PointerGuard(f.right_pointers, acc.base_type)
             THEN [next EXCEPT !.raised = TRUE]
        ELSE [next EXCEPT !.base_type = Append(@, f.x)]

RECURSIVE ClassifyFrom(_, _)
ClassifyFrom(acc, fragments) ==
    IF fragments = <<>> THEN acc
    ELSE ClassifyFrom(ClassifyFragment(acc, Head(fragments)), Tail(fragments))

Classify(fragments) ==
    ClassifyFrom([base_type |-> <<>>, pointers |-> 0, right_pointers |-> FALSE,
                  raised |-> FALSE], fragments)

\* CppType.create raises ValueError("pointer parsing failure ...")
CppTypeFails(fragments) == Classify(fragments).raised

\* CppType.__init__: tags are stored as a set
TagSet(taglist) == {taglist[i] : i \in 1..Len(taglist)}

\* the CppType that CppType.create returns when it does not raise
CppType(fragments, taglist) ==
    [full_type     |-> Join(fragments),
     base_type     |-> Join(Classify(fragments).base_type),
     pointer_level |-> Classify(fragments).pointers,
     tags          |-> TagSet(taglist)]

\* CppArgument.create
CppArgument(name, fragments, taglist) ==
    [name |-> name, type |-> CppType(fragments, taglist)]

\* the value of restype before it is assigned
NoType == [full_type |-> "", base_type |-> "", pointer_level |-> 0, tags |-> {}]

\* all_functions = {}
EmptyDict == [k \in {} |-> NoType]

\* dict[key] = value
DictSet(d, key, value) ==
    [k \in (DOMAIN d) \cup {key} |-> IF k = key THEN value ELSE d[k]]

\* Register that keeps the entry a name already has
RegisterFirst(registry, name, rtype, args) ==
    IF name \in DOMAIN registry THEN registry
    ELSE DictSet(registry, name, [restype |-> rtype, args |-> args])

\* all_functions[funname] = (restype, all_args)
Register(registry, name, rtype, args) ==
    DictSet(registry, name, [restype |-> rtype, args |-> args])

----------------------------------------------------------------------------
(* ExportTraverser, over the open file *)

\* the index of the last character of the line that starts at index i
LineEnd(text, i) ==
    LET newlines == { j \in i..Len(text) : Ch(text, j) = "\n" }
    IN  IF i >= Len(text) THEN i
        ELSE IF newlines = {} THEN Len(text)
        ELSE CHOOSE j \in newlines : \A k \in newlines : j <= k

\* handle.readline() with h characters already read: "" at the end of the file
Readline(text, h) ==
    IF h >= Len(text) THEN "" ELSE SubSeq(text, h + 1, LineEnd(text, h + 1))

\* GrabberNext that returns a space at the end of the file instead of raising
GrabberNextNoEnd(text, g) ==
    LET refill == g.position = Len(g.line)
        l      == IF refill THEN Readline(text, g.handle) ELSE g.line
        p      == IF refill THEN 0 ELSE g.position
    IN  IF l = ""
        THEN [eof |-> FALSE, ch |-> " ", line |-> g.line, position |-> g.position,
              handle |-> g.handle]
        ELSE [eof      |-> FALSE,
              ch       |-> Ch(l, p + 1),
              line     |-> l,
              position |-> p + 1,
              handle   |-> IF refill THEN g.handle + Len(l) ELSE g.handle]

\* GrabberNext that takes one character from the file at a time instead of a line
GrabberNextUnbuffered(text, g) ==
    LET l == IF g.handle >= Len(text) THEN "" ELSE Ch(text, g.handle + 1)
    IN  [eof      |-> l = "",
         ch       |-> l,
         line     |-> l,
         position |-> IF l = "" THEN 0 ELSE 1,
         handle   |-> g.handle + Len(l)]

\* ExportTraverser.next(): eof stands for the ValueError "reached end of the file"
GrabberNext(text, g) ==
    LET refill == g.position = Len(g.line)
        l      == IF refill THEN Readline(text, g.handle) ELSE g.line
        p      == IF refill THEN 0 ELSE g.position
    IN  [eof      |-> l = "",
         ch       |-> IF l = "" THEN "" ELSE Ch(l, p + 1),
         line     |-> l,
         position |-> IF l = "" THEN 0 ELSE p + 1,
         handle   |-> IF refill THEN g.handle + Len(l) ELSE g.handle]

\* ExportTraverser.get(): self.line[self.position]; Python raises IndexError
\* when the index is len(self.line)
GrabberGetFails(g) == g.position >= Len(g.line)

GrabberGet(g) == Ch(g.line, g.position + 1)

\* GrabberBack that leaves the position where it is
GrabberBackNone(g) == g

\* ExportTraverser.back()
GrabberBack(g) == [g EXCEPT !.position = @ - 1]

----------------------------------------------------------------------------
(* The loops of parse_cpp_file, as functions of the locals and the character *)

\* Nested with the parenthesis counter forgotten
NestedAngleOnly(s) == s.angle_nesting # 0

\* "curve_nesting or angle_nesting"
Nested(s) == s.curve_nesting # 0 \/ s.angle_nesting # 0

\* "if current: chunks.append(current); current = ''"
Flush(s) ==
    IF s.current # ""
    THEN [s EXCEPT !.chunks = Append(@, s.current), !.current = ""]
    ELSE s

\* PopName that leaves the name among the type fragments
PopNameKeeps(s) ==
    IF s.current = "" THEN [s EXCEPT !.current = s.chunks[Len(s.chunks)]] ELSE s

\* "if current == '': current = chunks.pop()": fails on an empty list
PopFails(s) == s.current = "" /\ s.chunks = <<>>

PopName(s) ==
    IF s.current = ""
    THEN [s EXCEPT !.current = s.chunks[Len(s.chunks)],
                   !.chunks = SubSeq(s.chunks, 1, Len(s.chunks) - 1)]
    ELSE s

\* the locals at the start of a phase
FreshLocals(s) ==
    [s EXCEPT !.current = "", !.chunks = <<>>, !.tags = <<>>,
              !.angle_nesting = 0, !.curve_nesting = 0]

\* NextArgument that carries the tags over to the next argument
NextArgumentKeepsTags(s) ==
    [s EXCEPT !.all_args = Append(@, CppArgument(PopName(s).current,
                                                 PopName(s).chunks, s.tags)),
              !.current = "", !.chunks = <<>>]

\* the locals after "all_args.append(...); current = ''; chunks = []; tags = []"
NextArgument(s) ==
    [s EXCEPT !.all_args = Append(@, CppArgument(PopName(s).current,
                                                 PopName(s).chunks, s.tags)),
              !.current = "", !.chunks = <<>>, !.tags = <<>>]

\* Each loop function returns the new locals and an outcome: "continue", the
\* name of the exception raised, or "break" when the loop is left.
Out(s, outcome) == [locals |-> s, outcome |-> outcome]

\* ResultTypeChar without the test of angle_nesting before the decrement
ResultTypeCharUnguarded(s, x) ==
    IF IsSpace(x) THEN Out(Flush(s), "continue")
    ELSE IF x = "<"
    THEN Out([s EXCEPT !.angle_nesting = @ + 1, !.current = @ \o x], "continue")
    ELSE IF x = ">"
    THEN Out([s EXCEPT !.angle_nesting = @ - 1, !.current = @ \o x], "continue")
    ELSE IF x = "("
    THEN IF s.curve_nesting = 0 /\ s.angle_nesting = 0
         THEN IF PopFails(s) THEN Out(s, "IndexError")
              ELSE IF CppTypeFails(PopName(s).chunks) THEN Out(s, "pointer")
              ELSE Out([FreshLocals(s) EXCEPT
                            !.funname = PopName(s).current,
                            !.restype = CppType(PopName(s).chunks, s.tags),
                            !.all_args = <<>>], "break")
         ELSE Out([s EXCEPT !.curve_nesting = @ + 1, !.current = @ \o x], "continue")
    ELSE IF x = ")"
    THEN IF s.curve_nesting = 0 THEN Out(s, "parens")
         ELSE Out([s EXCEPT !.curve_nesting = @ - 1, !.current = @ \o x], "continue")
    ELSE Out([s EXCEPT !.current = @ \o x], "continue")

\* one iteration of the first loop (result type and name) for a character
\* other than "/"
ResultTypeChar(s, x) ==
    IF IsSpace(x) THEN Out(Flush(s), "continue")
    ELSE IF x = "<"
    THEN Out([s EXCEPT !.angle_nesting = @ + 1, !.current = @ \o x], "continue")
    ELSE IF x = ">"
    THEN IF s.angle_nesting = 0 THEN Out(s, "angle")
         ELSE Out([s EXCEPT !.angle_nesting = @ - 1, !.current = @ \o x], "continue")
    ELSE IF x = "("
    THEN IF s.curve_nesting = 0 /\ s.angle_nesting = 0
         THEN IF PopFails(s) THEN Out(s, "IndexError")
              ELSE IF CppTypeFails(PopName(s).chunks) THEN Out(s, "pointer")
              ELSE Out([FreshLocals(s) EXCEPT
                            !.funname = PopName(s).current,
                            !.restype = CppType(PopName(s).chunks, s.tags),
                            !.all_args = <<>>], "break")
         ELSE Out([s EXCEPT !.curve_nesting = @ + 1, !.current = @ \o x], "continue")
    ELSE IF x = ")"
    THEN IF s.curve_nesting = 0 THEN Out(s, "parens")
         ELSE Out([s EXCEPT !.curve_nesting = @ - 1, !.current = @ \o x], "continue")
    ELSE Out([s EXCEPT !.current = @ \o x], "continue")

\* one iteration of the second loop (arguments) for a character other than "/"
ArgumentChar(s, x) ==
    IF IsSpace(x)
    THEN IF Nested(s) THEN Out([s EXCEPT !.current = @ \o x], "continue")
         ELSE Out(Flush(s), "continue")
    ELSE IF x = "<"
    THEN Out([s EXCEPT !.angle_nesting = @ + 1, !.current = @ \o x], "continue")
    ELSE IF x = ">"
    THEN IF s.angle_nesting = 0 THEN Out(s, "angle")
         ELSE Out([s EXCEPT !.angle_nesting = @ - 1, !.current = @ \o x], "continue")
    ELSE IF x = "("
    THEN Out([s EXCEPT !.curve_nesting = @ + 1, !.current = @ \o x], "continue")
    ELSE IF x = ")"
    THEN IF s.curve_nesting = 0
         THEN IF s.angle_nesting # 0 THEN Out(s, "angle")
              ELSE IF PopFails(s) THEN Out(s, "IndexError")
              ELSE IF CppTypeFails(PopName(s).chunks) THEN Out(s, "pointer")
              ELSE Out(NextArgument(s), "break")
         ELSE Out([s EXCEPT !.curve_nesting = @ - 1, !.current = @ \o x], "continue")
    ELSE IF x = ","
    THEN IF Nested(s) THEN Out([s EXCEPT !.current = @ \o x], "continue")
         ELSE IF PopFails(s) THEN Out(s, "IndexError")
         ELSE IF CppTypeFails(PopName(s).chunks) THEN Out(s, "pointer")
         ELSE Out(NextArgument(s), "continue")
    ELSE Out([s EXCEPT !.current = @ \o x], "continue")

\* RegistryAfter that also enters what was parsed when the loop is left by an
\* exception
RegistryAfterPartial(registry, s, outcome) ==
    IF outcome # "continue"
    THEN Register(registry, s.funname, s.restype, s.all_args)
    ELSE registry

\* the registry after an iteration of the second loop: the declaration is
\* entered only when the loop is left at the closing parenthesis
RegistryAfter(registry, s, outcome) ==
    IF outcome = "break"
    THEN Register(registry, s.funname, s.restype, s.all_args)
    ELSE registry

\* "Comments terminate any existing chunk": what each loop does with the
\* character x read after a "/", before it calls parse_comment
CommentFlush(s, inArgs, x) ==
    IF x # "/" /\ x # "*" THEN s
    ELSE IF inArgs /\ Nested(s) THEN [s EXCEPT !.current = @ \o x]
    ELSE Flush(s)

\* "if curtag: tags.append(curtag); curtag = ''"
FlushTag(taglist, tag) == IF tag # "" THEN Append(taglist, tag) ELSE taglist

----------------------------------------------------------------------------
(* Inputs *)

\* bounds of the model
MaxBody == 4

MaxStars == 2

MaxFiles == 2

Marker == "//[[export]]\n"

File(path, text) == [path |-> path, text |-> text]

T(full, base, ptr, tagset) ==
    [full_type |-> full, base_type |-> base, pointer_level |-> ptr, tags |-> tagset]

Arg(name, type) == [name |-> name, type |-> type]

Decl(name, rtype, args) ==
    [name |-> name, rec |-> [restype |-> rtype, args |-> args]]

\* the registry that holds, for each name, the last declaration of ds with it
LastWins(ds) ==
    [n \in {ds[i].name : i \in 1..Len(ds)} |->
        LET last == CHOOSE i \in 1..Len(ds) :
                        /\ ds[i].name = n
                        /\ \A j \in 1..Len(ds) : ds[j].name = n => j <= i
        IN  ds[last].rec]

(* The sources of the tests (tests/test_parse_cpp_exports.py) with the values
   their assertions expect. *)
BasicSource ==
    "\n//[[export]]\nint foobar(X x, const YYY y, const long double* z, char*** aaron, const char* const* becky) {\n    return 1\n}"

BasicExpected ==
    Decl("foobar", T("int", "int", 0, {}),
         << Arg("x", T("X", "X", 0, {})),
            Arg("y", T("const YYY", "YYY", 0, {})),
            Arg("z", T("const long double*", "long double", 1, {})),
            Arg("aaron", T("char***", "char", 3, {})),
            Arg("becky", T("const char* const*", "char", 2, {})) >>)

WhitespaceSource ==
    "\n//[[export]]\nint*foobar( X x, const YYY y , const double * z, char***aaron,const char*const*becky) {\n    return 1\n}"

WhitespaceExpected ==
    Decl("foobar", T("int*", "int", 1, {}),
         << Arg("x", T("X", "X", 0, {})),
            Arg("y", T("const YYY", "YYY", 0, {})),
            Arg("z", T("const double*", "double", 1, {})),
            Arg("aaron", T("char***", "char", 3, {})),
            Arg("becky", T("const char* const*", "char", 2, {})) >>)

CppSource ==
    "\n//[[export]]\nstd::vector<decltype(bar)>foobar( decltype(FOO)x, const std::list<std::vector<int> >& y , std::map<int, char**> z, std::vector<double>&aaron, const std::vector<char>*becky) {\n    return 1\n}"

CppExpected ==
    Decl("foobar", T("std::vector<decltype(bar)>", "std::vector<decltype(bar)>", 0, {}),
         << Arg("x", T("decltype(FOO)", "decltype(FOO)", 0, {})),
            Arg("y", T("const std::list<std::vector<int> >&",
                       "std::list<std::vector<int> >", 0, {})),
            Arg("z", T("std::map<int, char**>", "std::map<int, char**>", 0, {})),
            Arg("aaron", T("std::vector<double>&", "std::vector<double>", 0, {})),
            Arg("becky", T("const std::vector<char>*", "std::vector<char>", 1, {})) >>)

TestTable ==
    { [text |-> BasicSource, decl |-> BasicExpected],
      [text |-> WhitespaceSource, decl |-> WhitespaceExpected],
      [text |-> CppSource, decl |-> CppExpected] }

TestSources == { <<File("test.cpp", e.text)>> : e \in TestTable }

(* Declarations of the basic shape: an optional const, one or two base words,
   stars after the last base word, an optional "const*", then the name. *)
RECURSIVE Stars(_)
Stars(k) == IF k = 0 THEN "" ELSE "*" \o Stars(k - 1)

TypeSpecs ==
    [const : BOOLEAN, words : {<<"X">>, <<"long", "double">>},
     stars : 0..MaxStars, cstars : 0..1]

SpecOf(const, words, stars, cstars) ==
    [const |-> const, words |-> words, stars |-> stars, cstars |-> cstars]

\* the type the specification gives a TypeSpec
TypeOf(a) ==
    T((IF a.const THEN "const " ELSE "") \o Join(a.words) \o Stars(a.stars)
          \o (IF a.cstars = 1 THEN " const*" ELSE ""),
      Join(a.words), a.stars + a.cstars, {})

\* where the whitespace around a run of stars goes
StarStyles == {"right", "left", "both", "none"}

Layouts == [star : StarStyles, comma : {", ", " , ", ","}, pad : {"", " "}]

Canonical == [star |-> "right", comma |-> ", ", pad |-> ""]

\* a type and the name after it, as text
RenderTyped(a, name, style) ==
    LET before == IF style \in {"left", "both"} THEN " " ELSE ""
        after  == IF style \in {"right", "both"} THEN " " ELSE ""
    IN  (IF a.const THEN "const " ELSE "") \o Join(a.words)
        \o (IF a.stars = 0 THEN " " ELSE before \o Stars(a.stars) \o after)
        \o (IF a.cstars = 1 THEN "const" \o before \o "*" \o after ELSE "")
        \o name

\* int[*] foobar(X x, <a> v, char*** aaron) { ... }
ShapeText(ret, a, l) ==
    Marker \o RenderTyped(ret, "foobar", l.star) \o l.pad \o "(" \o l.pad
    \o RenderTyped(SpecOf(FALSE, <<"X">>, 0, 0), "x", l.star) \o l.comma
    \o RenderTyped(a, "v", l.star) \o l.comma
    \o RenderTyped(SpecOf(FALSE, <<"char">>, 3, 0), "aaron", l.star)
    \o l.pad \o ") {\n    return 1\n}"

ShapeDecl(ret, a) ==
    Decl("foobar", TypeOf(ret),
         << Arg("x", T("X", "X", 0, {})), Arg("v", TypeOf(a)),
            Arg("aaron", T("char***", "char", 3, {})) >>)

ReturnSpecs == {SpecOf(FALSE, <<"int">>, 0, 0), SpecOf(FALSE, <<"int">>, 1, 0)}

ShapeTable ==
    { [text |-> ShapeText(ret, a, l), decl |-> ShapeDecl(ret, a), spec |-> a,
        layout |-> l] :
        ret \in ReturnSpecs, a \in TypeSpecs, l \in Layouts }

ShapeSources == { <<File("shape.cpp", e.text)>> : e \in ShapeTable }

(* Arguments whose type holds commas and whitespace inside <...> or (...) *)
NestedInner == {"int, char**", "a,b", "a ,  b", "B<c, d>,\n(e, f)"}

NestedTypes ==
    { h \o b[1] \o i \o b[2] :
        h \in {"std::map", "A"}, b \in {<<"<", ">">>, <<"(", ")">>}, i \in NestedInner }

\* int f(...) with the argument "<type> z" at index k among X x and char* y
NestedText(type, k) ==
    Marker \o "int f("
    \o (IF k = 1 THEN type \o " z, X x, char* y"
        ELSE IF k = 2 THEN "X x, " \o type \o " z, char* y"
        ELSE "X x, char* y, " \o type \o " z")
    \o ") {}\n"

NestedDecl(type, k) ==
    LET x == Arg("x", T("X", "X", 0, {}))
        y == Arg("y", T("char*", "char", 1, {}))
        z == Arg("z", T(type, type, 0, {}))
    IN  Decl("f", T("int", "int", 0, {}),
             IF k = 1 THEN <<z, x, y>> ELSE IF k = 2 THEN <<x, z, y>> ELSE <<x, y, z>>)

NestedTable ==
    { [text |-> NestedText(t, k), decl |-> NestedDecl(t, k)] :
        t \in NestedTypes, k \in 1..3 }

NestedSources == { <<File("nested.cpp", e.text)>> : e \in NestedTable }

(* Declarations with one comment in one of five places:
   int <1> f(int <2> x <3>, A< <4> b> y <5>) *)
Comments ==
    { [text |-> " /** t */ ", tags |-> {"t"}],
      [text |-> " /** t u t */ ", tags |-> {"t", "u"}],
      [text |-> " //* t */\n ", tags |-> {}],
      [text |-> " /* t */ ", tags |-> {}] }

TagText(slot, c) ==
    LET at(k) == IF slot = k THEN c.text ELSE " "
    IN  Marker \o "int" \o at(1) \o "f(int" \o at(2) \o "x" \o at(3)
        \o ", A<" \o at(4) \o "b> y" \o at(5) \o ")"

\* the tags the comment gives the return type, x and y
TagExpected(slot, c) ==
    [restype |-> IF slot = 1 THEN c.tags ELSE {},
     x       |-> IF slot \in {2, 3} THEN c.tags ELSE {},
     y       |-> IF slot = 5 THEN c.tags ELSE {}]

TagTable ==
    { [text |-> TagText(slot, c), tags |-> TagExpected(slot, c), slot |-> slot] :
        slot \in 1..5, c \in Comments }

TagSources == { <<File("tags.cpp", e.text)>> : e \in TagTable }

(* Arguments passed by reference or by pointer to a template type *)
ReferenceTable ==
    { [text |-> Marker \o "int f(std::vector<double>& aaron)",
       decl |-> Decl("f", T("int", "int", 0, {}),
                     <<Arg("aaron", T("std::vector<double>&", "std::vector<double>", 0, {}))>>)],
      [text |-> Marker \o "int f(std::vector<double>&aaron)",
       decl |-> Decl("f", T("int", "int", 0, {}),
                     <<Arg("aaron", T("std::vector<double>&", "std::vector<double>", 0, {}))>>)],
      [text |-> Marker \o "int f(const std::list<std::vector<int> >& y)",
       decl |-> Decl("f", T("int", "int", 0, {}),
                     <<Arg("y", T("const std::list<std::vector<int> >&",
                                  "std::list<std::vector<int> >", 0, {}))>>)],
      [text |-> Marker \o "int f(const std::vector<char>*becky)",
       decl |-> Decl("f", T("int", "int", 0, {}),
                     <<Arg("becky", T("const std::vector<char>*", "std::vector<char>", 1, {}))>>)],
      [text |-> Marker \o "int f(const std::vector<char>* becky)",
       decl |-> Decl("f", T("int", "int", 0, {}),
                     <<Arg("becky", T("const std::vector<char>*", "std::vector<char>", 1, {}))>>)] }

ReferenceSources == { <<File("ref.cpp", e.text)>> : e \in ReferenceTable }

(* Declarations without arguments *)
ZeroArgTable ==
    { [text |-> Marker \o "int f()",
       decl |-> Decl("f", T("int", "int", 0, {}), <<>>)],
      [text |-> Marker \o "int f( ) {\n}\n",
       decl |-> Decl("f", T("int", "int", 0, {}), <<>>)],
      [text |-> Marker \o "void g(\n)",
       decl |-> Decl("g", T("void", "void", 0, {}), <<>>)] }

ZeroArgSources == { <<File("zero.cpp", e.text)>> : e \in ZeroArgTable }

(* Sources that end before the closing parenthesis of a declaration *)
Complete ==
    { "int f(int x, char* y)",
      "int /** r */ f(A<b, c> x /** t */)",
      "int f(int x /* c */, int y // d\n)" }

TruncatedTexts ==
    UNION { { Marker \o SubSeq(d, 1, k) : k \in 0..(Len(d) - 1) } : d \in Complete }

TruncatedSources == { <<File("cut.cpp", t)>> : t \in TruncatedTexts }

(* Every short text after a marker line *)
Alphabet == {"a", " ", "\n", "*", "/", "<", ">", "(", ")", ","}

RECURSIVE Strings(_)
Strings(n) ==
    IF n = 0 THEN {""}
    ELSE LET S == Strings(n - 1) IN S \cup {c \o t : c \in Alphabet, t \in S}

ShortSources == { <<File("short.cpp", Marker \o b)>> : b \in Strings(MaxBody) }

(* Source directories: small files, with the declarations that precede the
   first malformed one *)
IntX == <<Arg("x", T("int", "int", 0, {}))>>

SmallFiles ==
    { [path  |-> "a.cpp",
       text  |-> "// [[export]]\nint foo(int x)\n{ }\n",
       decls |-> <<Decl("foo", T("int", "int", 0, {}), IntX)>>,
       fails |-> FALSE],
      [path  |-> "b.cpp",
       text  |-> "#include <x>\n  //[[export]] foo\nchar* foo(X* y, int n) {}\n",
       decls |-> <<Decl("foo", T("char*", "char", 1, {}),
                        <<Arg("y", T("X*", "X", 1, {})),
                          Arg("n", T("int", "int", 0, {}))>>)>>,
       fails |-> FALSE],
      [path  |-> "c.cpp",
       text  |-> "//[[export]]\nint bar(int x) {\n}\n//[[export]]\nlong foo(\n  X x\n) {}\n",
       decls |-> <<Decl("bar", T("int", "int", 0, {}), IntX),
                   Decl("foo", T("long", "long", 0, {}),
                        <<Arg("x", T("X", "X", 0, {}))>>)>>,
       fails |-> FALSE],
      [path  |-> "d.cpp",
       text  |-> "//[[export]]\nint foo(X a) {}\n//[[export]]\nint foo(X b) {}\n",
       decls |-> <<Decl("foo", T("int", "int", 0, {}), <<Arg("a", T("X", "X", 0, {}))>>),
                   Decl("foo", T("int", "int", 0, {}), <<Arg("b", T("X", "X", 0, {}))>>)>>,
       fails |-> FALSE],
      [path  |-> "e.cpp",
       text  |-> "//[[export]]\nint baz(int x);\n//[[export]]\nint foo(int> x);\n//[[export]]\nint qux(int x);\n",
       decls |-> <<Decl("baz", T("int", "int", 0, {}), IntX)>>,
       fails |-> TRUE],
      [path  |-> "f.h",
       text  |-> "//[[export]]\nint hdr(int x);\n",
       decls |-> <<Decl("hdr", T("int", "int", 0, {}), IntX)>>,
       fails |-> FALSE],
      [path  |-> "g.cpp",
       text  |-> "int unmarked(int x) {}\n",
       decls |-> <<>>,
       fails |-> FALSE] }

\* the sequences of n distinct small files
RECURSIVE Distinct(_)
Distinct(n) ==
    IF n = 0 THEN {<<>>}
    ELSE { d \in { Append(e, f) : e \in Distinct(n - 1), f \in SmallFiles } :
             \A i, j \in 1..Len(d) : i # j => d[i] # d[j] }

Directories ==
    { [i \in 1..Len(d) |-> File(d[i].path, d[i].text)] :
        d \in UNION {Distinct(n) : n \in 1..MaxFiles} }

(* Declarations with one comment that holds no tag, in one of the five places
   of TagText *)
LineComments == {" // c\n ", " //\n ", " ///c\n ", " //* t */\n "}

BlockComments == {" /* c */ ", " /*c*/ ", " /* c **/ "}

\* comments of the tag form, which are plain where they are opened inside <...>
NestedComments == {" /** t */ ", " /** t **/ "}

AsComment(text) == [text |-> text, tags |-> {}]

\* the record of TagText(slot, c) when the comment c contributes nothing
PlainDecl(slot) ==
    LET y == IF slot = 4 THEN "A<  b>" ELSE "A< b>"
    IN  Decl("f", T("int", "int", 0, {}),
             << Arg("x", T("int", "int", 0, {})), Arg("y", T(y, y, 0, {})) >>)

LineCommentTable ==
    { [text |-> TagText(slot, AsComment(c)), decl |-> PlainDecl(slot)] :
        slot \in 1..5, c \in LineComments }

BlockCommentTable ==
    { [text |-> TagText(slot, AsComment(c)), decl |-> PlainDecl(slot)] :
        slot \in 1..5, c \in BlockComments }
    \cup { [text |-> TagText(4, AsComment(c)), decl |-> PlainDecl(4)] :
             c \in NestedComments }

CommentSources ==
    { <<File("comment.cpp", e.text)>> : e \in LineCommentTable \cup BlockCommentTable }

(* A "/" followed by a character that opens no comment, in either loop *)
SlashTexts ==
    { Marker \o "int f(int x /a/ , int y)\n",
      Marker \o "int f(int x / a, int y)\n",
      Marker \o "int f(int x /a* b */, int y)\n",
      Marker \o "int /a/ f(int x)\n",
      Marker \o "int / f(int x)\n",
      Marker \o "int f(int x /",
      Marker \o "int f(int a/b)\n" }

SlashSources == { <<File("slash.cpp", t)>> : t \in SlashTexts }

(* Declarations whose brackets do not match, with the error of the bracket *)
ImbalancedTable ==
    { [text |-> Marker \o "A<b f(int x) {}\n", kind |-> "angle"],
      [text |-> Marker \o "int> f(int x) {}\n", kind |-> "angle"],
      [text |-> Marker \o "int) f(int x) {}\n", kind |-> "parens"],
      [text |-> Marker \o "A<(b> f(int x) {}\n", kind |-> "parens"],
      [text |-> Marker \o "A<b)> f(int x) {}\n", kind |-> "parens"],
      [text |-> Marker \o "int f(A<b x) {}\n", kind |-> "angle"],
      [text |-> Marker \o "int f(A<B<b> x) {}\n", kind |-> "angle"],
      [text |-> Marker \o "int f(int> x) {}\n", kind |-> "angle"],
      [text |-> Marker \o "int f(A(b x) {}\n", kind |-> "parens"],
      [text |-> Marker \o "int f(A<(b> x) {}\n", kind |-> "parens"] }

ImbalancedSources == { <<File("brackets.cpp", e.text)>> : e \in ImbalancedTable }

(* Argument types of two words and stars between them, and types in which
   only const follows the stars *)
PointerTable ==
    { [type |-> "a* b", rejects |-> TRUE, base |-> "", ptr |-> 0],
      [type |-> "a *b", rejects |-> TRUE, base |-> "", ptr |-> 0],
      [type |-> "a * b", rejects |-> TRUE, base |-> "", ptr |-> 0],
      [type |-> "a** b", rejects |-> TRUE, base |-> "", ptr |-> 0],
      [type |-> "a * *b", rejects |-> TRUE, base |-> "", ptr |-> 0],
      [type |-> "char* const*", rejects |-> FALSE, base |-> "char", ptr |-> 2],
      [type |-> "const char* const* const", rejects |-> FALSE, base |-> "char", ptr |-> 2],
      [type |-> "char**", rejects |-> FALSE, base |-> "char", ptr |-> 2] }

PointerText(type) == Marker \o "int f(int n, " \o type \o " x)\n"

PointerSources == { <<File("pointer.cpp", PointerText(e.type))>> : e \in PointerTable }

(* Declarations in which a name is missing, or stands apart from the
   parenthesis or comma after it *)
NameTexts ==
    { Marker \o "int foo(int x,)\n",
      Marker \o "int foo(,int x)\n",
      Marker \o "int foo(int x, ,int y)\n",
      Marker \o "(int x)\n",
      Marker \o " (int x)\n",
      Marker \o "int foo (int x , char* y )\n",
      Marker \o "int foo(int)\n" }

NameSources == { <<File("names.cpp", t)>> : t \in NameTexts }

(* Argument lists of one to MaxArgs different arguments, each with its own
   tokens and tags *)
MaxArgs == 3

ArgPool ==
    { [text |-> "A /** t */ a", arg |-> Arg("a", T("A", "A", 0, {"t"}))],
      [text |-> "const B* b /** u */", arg |-> Arg("b", T("const B*", "B", 1, {"u"}))],
      [text |-> "C<d, e> c", arg |-> Arg("c", T("C<d, e>", "C<d, e>", 0, {}))],
      [text |-> "/** v w */ D** d", arg |-> Arg("d", T("D**", "D", 2, {"v", "w"}))] }

RECURSIVE ArgLists(_)
ArgLists(n) ==
    IF n = 0 THEN {<<>>}
    ELSE { l \in { Append(e, a) : e \in ArgLists(n - 1), a \in ArgPool } :
             \A i, j \in 1..Len(l) : i # j => l[i] # l[j] }

RECURSIVE ArgListText(_)
ArgListText(l) ==
    IF Len(l) = 1 THEN l[1].text
    ELSE l[1].text \o ", " \o ArgListText(Tail(l))

ArgsTable ==
    { [text |-> Marker \o "int /** r */ f(" \o ArgListText(l) \o ") {}\n",
       decl |-> Decl("f", T("int", "int", 0, {"r"}), [i \in 1..Len(l) |-> l[i].arg]),
       commas |-> Len(l) - 1] :
        l \in UNION { ArgLists(n) : n \in 1..MaxArgs } }

ArgsSources == { <<File("args.cpp", e.text)>> : e \in ArgsTable }

(* One type text as the return type and as the type of the argument *)
PhaseTypes ==
    { "int", "const char*", "char* const*", "std::vector<char*>", "A<(b,c)>",
      "std::vector<char *>", "std::map<int,  char>", "std::map<int, char**>" }

PhaseText(type) == Marker \o type \o " f(" \o type \o " x)\n"

PhaseSources == { <<File("phase.cpp", PhaseText(t))>> : t \in PhaseTypes }

(* Tag comments with stars inside and before the closing slash *)
StarTagTexts ==
    { Marker \o "int f(int x /** t*u **/, int y)\n",
      Marker \o "int /** *a b* */ f(int x)\n",
      Marker \o "int f(A< /** t*u */ b> y)\n" }

StarTagSources == { <<File("stars.cpp", t)>> : t \in StarTagTexts }

(* Sources with two marked declarations, each followed by the rest of its
   line and a body *)
Trailers ==
    { " {}\n", ";\n", " //[[export]]\n", " { return g(x, (y)); }\n",
      "\n{\n  if (a > b) )<\n}\n" }

TrailerDecls ==
    << Decl("f", T("int", "int", 0, {}), <<Arg("x", T("int", "int", 0, {}))>>),
       Decl("g", T("char*", "char", 1, {}), <<Arg("y", T("X*", "X", 1, {}))>>) >>

TrailerText(t1, t2) ==
    Marker \o "int f(int x)" \o t1 \o Marker \o "char* g(X* y)" \o t2

TrailerSources ==
    { <<File("bodies.cpp", TrailerText(t1, t2))>> : t1 \in Trailers, t2 \in Trailers }

\* what a caller of parse_cpp_file is given, and what a driver is given
DirectWorkloads ==
    TestSources \cup ShapeSources \cup NestedSources \cup ReferenceSources \cup
    TagSources \cup     ZeroArgSources \cup TruncatedSources \cup ShortSources \cup Directories
    \cup CommentSources \cup SlashSources \cup ImbalancedSources \cup PointerSources
    \cup NameSources \cup ArgsSources \cup PhaseSources
    \cup StarTagSources \cup TrailerSources

DriverWorkloads == TestSources \cup TruncatedSources \cup Directories

----------------------------------------------------------------------------
(* State *)

NoError == [kind |-> "none", source |-> ""]

\* the locals of parse_cpp_file
Locals ==
    [current |-> current, chunks |-> chunks, tags |-> tags,
     angle_nesting |-> angle_nesting, curve_nesting |-> curve_nesting,
     funname |-> funname, restype |-> restype, all_args |-> all_args]

SetLocals(s) ==
    /\ current' = s.current
    /\ chunks' = s.chunks
    /\ tags' = s.tags
    /\ angle_nesting' = s.angle_nesting
    /\ curve_nesting' = s.curve_nesting
    /\ funname' = s.funname
    /\ restype' = s.restype
    /\ all_args' = s.all_args

InitialLocals ==
    [current |-> "", chunks |-> <<>>, tags |-> <<>>, angle_nesting |-> 0,
     curve_nesting |-> 0, funname |-> "", restype |-> NoType, all_args |-> <<>>]

Grabber == [line |-> line, position |-> position, handle |-> handle]

SetGrabber(g) ==
    /\ line' = g.line
    /\ position' = g.position
    /\ handle' = g.handle

\* the file being parsed
Path == files[order[fi]].path

Text == files[order[fi]].text

inputs == <<api, files, order>>

locals == <<current, chunks, tags, angle_nesting, curve_nesting, funname,
            restype, all_args>>

grabber == <<line, position, handle>>

\* the orders in which os.listdir may return n entries
Orders(n) ==
    {o \in [1..n -> 1..n] : \A i, j \in 1..n : i # j => o[i] # o[j]}

Identity(n) == [i \in 1..n |-> i]

Init ==
    /\ api \in {"direct", "files", "srcdir"}
    /\ files \in IF api = "direct" THEN DirectWorkloads ELSE DriverWorkloads
    /\ order \in IF api = "srcdir" THEN Orders(Len(files)) ELSE {Identity(Len(files))}
    /\ fi = 1
    /\ pc = "loop"
    /\ handle = 0
    /\ line = ""
    /\ position = 0
    /\ phase = "restype"
    /\ current = ""
    /\ chunks = <<>>
    /\ tags = <<>>
    /\ angle_nesting = 0
    /\ curve_nesting = 0
    /\ funname = ""
    /\ restype = NoType
    /\ all_args = <<>>
    /\ curtag = ""
    /\ all_functions = EmptyDict
    /\ error = NoError

----------------------------------------------------------------------------
(* Exceptions *)

\* An exception leaves parse_cpp_file.  The driver of the source directory wraps
\* it in ValueError("failed to parse '<path>'"); a direct caller gets it as it is.
RaiseFrom(kind) ==
    /\ pc' = "raised"
    /\ error' = [kind |-> kind, source |-> IF api = "direct" THEN "" ELSE Path]
    /\ UNCHANGED <<inputs, fi, grabber, phase, locals, curtag>>

Raise(kind) == RaiseFrom(kind) /\ UNCHANGED all_functions

AsGrabber(n) == [line |-> n.line, position |-> n.position, handle |-> n.handle]

----------------------------------------------------------------------------
(* Drivers *)

Open ==
    /\ pc' = "scan"
    /\ handle' = 0
    /\ line' = ""
    /\ position' = 0
    /\ UNCHANGED <<inputs, fi, phase, locals, curtag, all_functions, error>>

Return ==
    /\ pc' = "returned"
    /\ UNCHANGED <<inputs, fi, grabber, phase, locals, curtag, all_functions, error>>

\* parse_cpp_exports(files): one iteration of "for p in files".  The name srcdir
\* is not defined in the module, so os.path.join(srcdir, p) raises NameError, which
\* the except clause wraps.
ParseCppExports ==
    /\ pc = "loop"
    /\ api = "files"
    /\ IF fi > Len(order) THEN Return ELSE Raise("NameError")

\* parse_cpp_exports(srcdir) of the earlier module: one iteration of
\* "for p in os.listdir(srcdir)"
ParseCppExportsSrcdir ==
    /\ pc = "loop"
    /\ api = "srcdir"
    /\ IF fi > Len(order) THEN Return
       ELSE IF ~ EndsWith(Path, ".cpp")
       THEN /\ fi' = fi + 1
            /\ UNCHANGED <<inputs, pc, grabber, phase, locals, curtag,
                           all_functions, error>>
       ELSE Open

\* a caller that calls parse_cpp_file(path, all_functions) for each path in turn
CallParseCppFile ==
    /\ pc = "loop"
    /\ api = "direct"
    /\ IF fi > Len(order) THEN Return ELSE Open

----------------------------------------------------------------------------
(* parse_cpp_file *)

\* one iteration of the outer loop: read a line, look for the export marker
ScanLine ==
    /\ pc = "scan"
    /\ LET l == Readline(Text, handle)
       IN  IF l = ""
           THEN /\ pc' = "loop"
                /\ fi' = fi + 1
                /\ UNCHANGED <<inputs, grabber, phase, locals, curtag,
                               all_functions, error>>
           ELSE /\ handle' = handle + Len(l)
                /\ IF MatchExport(l)
                   THEN /\ pc' = "restype"
                        /\ line' = ""
                        /\ position' = 0
                        /\ SetLocals(InitialLocals)
                   ELSE UNCHANGED <<pc, line, position, locals>>
                /\ UNCHANGED <<inputs, fi, phase, curtag, all_functions, error>>

\* one iteration of the first loop, for a character other than "/"
ResultTypeStep ==
    /\ pc = "restype"
    /\ LET n == GrabberNext(Text, Grabber)
           r == ResultTypeChar(Locals, n.ch)
       IN  /\ n.eof \/ n.ch # "/"
           /\ IF n.eof THEN Raise("unterminated")
              ELSE IF r.outcome \notin {"continue", "break"} THEN Raise(r.outcome)
              ELSE /\ pc' = IF r.outcome = "break" THEN "args" ELSE "restype"
                   /\ SetGrabber(AsGrabber(n))
                   /\ SetLocals(r.locals)
                   /\ UNCHANGED <<inputs, fi, phase, curtag, all_functions, error>>

\* one iteration of the second loop, for a character other than "/"; when the
\* loop is left the declaration is entered in the registry
ArgumentStep ==
    /\ pc = "args"
    /\ LET n == GrabberNext(Text, Grabber)
           r == ArgumentChar(Locals, n.ch)
           outcome == IF n.eof THEN "unterminated" ELSE r.outcome
       IN  /\ n.eof \/ n.ch # "/"
           /\ all_functions' = RegistryAfter(all_functions, r.locals, outcome)
           /\ IF outcome \notin {"continue", "break"} THEN RaiseFrom(outcome)
              ELSE /\ pc' = IF outcome = "break" THEN "scan" ELSE "args"
                   /\ SetGrabber(AsGrabber(n))
                   /\ SetLocals(r.locals)
                   /\ UNCHANGED <<inputs, fi, phase, curtag, error>>

----------------------------------------------------------------------------
(* parse_comment *)

\* parse_comment up to its loops: the outcome is the loop entered or the
\* exception raised
ParseCommentEntry(text, g, nested) ==
    IF GrabberGetFails(g) THEN [outcome |-> "IndexError", grabber |-> g]
    ELSE IF GrabberGet(g) = "/" THEN [outcome |-> "line_comment", grabber |-> g]
    ELSE IF GrabberGet(g) = "*"
    THEN LET n == GrabberNext(text, g)
         IN  IF n.ch = "*" /\ ~ nested
             THEN [outcome |-> "tag_comment", grabber |-> AsGrabber(n)]
             ELSE [outcome |-> "block_comment", grabber |-> GrabberBack(AsGrabber(n))]
    ELSE [outcome |-> "comment", grabber |-> g]

\* the iteration of either loop that reads a "/": it reads the next character,
\* ends the token in progress and calls parse_comment
CommentStart ==
    /\ pc \in {"restype", "args"}
    /\ LET n1 == GrabberNext(Text, Grabber)
           n2 == GrabberNext(Text, AsGrabber(n1))
           s  == CommentFlush(Locals, pc = "args", n2.ch)
           e  == ParseCommentEntry(Text, AsGrabber(n2), Nested(s))
       IN  /\ ~ n1.eof
           /\ n1.ch = "/"
           /\ IF n2.eof THEN Raise("unterminated")
              ELSE IF e.outcome \in {"IndexError", "comment"} THEN Raise(e.outcome)
              ELSE /\ pc' = e.outcome
                   /\ phase' = pc
                   /\ curtag' = ""
                   /\ SetGrabber(e.grabber)
                   /\ SetLocals(s)
                   /\ UNCHANGED <<inputs, fi, all_functions, error>>

\* one iteration of the loop over a "//" comment
LineCommentStep ==
    /\ pc = "line_comment"
    /\ LET n == GrabberNext(Text, Grabber)
       IN  IF n.eof THEN Raise("unterminated")
           ELSE /\ pc' = IF n.ch = "\n" THEN phase ELSE pc
                /\ SetGrabber(AsGrabber(n))
                /\ UNCHANGED <<inputs, fi, phase, locals, curtag, all_functions, error>>

\* one iteration of the loop over a tag comment
TagCommentStep ==
    /\ pc = "tag_comment"
    /\ LET n == GrabberNext(Text, Grabber)
           y == GrabberNext(Text, AsGrabber(n))
       IN  IF n.eof THEN Raise("unterminated")
           ELSE IF IsSpace(n.ch)
           THEN /\ tags' = FlushTag(tags, curtag)
                /\ curtag' = ""
                /\ SetGrabber(AsGrabber(n))
                /\ UNCHANGED <<inputs, fi, pc, phase, current, chunks, angle_nesting,
                               curve_nesting, funname, restype, all_args,
                               all_functions, error>>
           ELSE IF n.ch = "*"
           THEN IF y.eof THEN Raise("unterminated")
                ELSE IF y.ch = "/"
                THEN /\ tags' = FlushTag(tags, curtag)
                     /\ curtag' = ""
                     /\ pc' = phase
                     /\ SetGrabber(AsGrabber(y))
                     /\ UNCHANGED <<inputs, fi, phase, current, chunks, angle_nesting,
                                    curve_nesting, funname, restype, all_args,
                                    all_functions, error>>
                ELSE /\ curtag' = curtag \o n.ch
                     /\ SetGrabber(GrabberBack(AsGrabber(y)))
                     /\ UNCHANGED <<inputs, fi, pc, phase, locals, all_functions, error>>
           ELSE /\ curtag' = curtag \o n.ch
                /\ SetGrabber(AsGrabber(n))
                /\ UNCHANGED <<inputs, fi, pc, phase, locals, all_functions, error>>

\* one iteration of the loop over a comment without tags
BlockCommentStep ==
    /\ pc = "block_comment"
    /\ LET n == GrabberNext(Text, Grabber)
           y == GrabberNext(Text, AsGrabber(n))
       IN  IF n.eof THEN Raise("unterminated")
           ELSE IF n.ch # "*"
           THEN /\ SetGrabber(AsGrabber(n))
                /\ UNCHANGED <<inputs, fi, pc, phase, locals, curtag, all_functions, error>>
           ELSE IF y.eof THEN Raise("unterminated")
           ELSE /\ pc' = IF y.ch = "/" THEN phase ELSE pc
                /\ SetGrabber(AsGrabber(y))
                /\ UNCHANGED <<inputs, fi, phase, locals, curtag, all_functions, error>>

----------------------------------------------------------------------------

Next ==
    \/ ParseCppExports
    \/ ParseCppExportsSrcdir
    \/ CallParseCppFile
    \/ ScanLine
    \/ ResultTypeStep
    \/ ArgumentStep
    \/ CommentStart
    \/ LineCommentStep
    \/ TagCommentStep
    \/ BlockCommentStep

Spec == Init /\ [][Next]_vars

----------------------------------------------------------------------------
(* Properties *)

Finished == pc \in {"returned", "raised"}

Succeeded == pc = "returned" /\ error = NoError

\* the single source file of the run has this text
Source(text) == Len(files) = 1 /\ files[1].text = text

\* the run parsed one declaration, without error, as d
ParsedAs(d) == error = NoError /\ all_functions = LastWins(<<d>>)

(* C1: a declaration of the basic shape (type tokens separated by spaces, const
   qualifiers, stars at the end of the type, then the name) is parsed without
   error, and every argument and the return type are recorded with the name,
   full type, base type and pointer level the specification gives; in
   particular the declaration of the basic test gives the values its
   assertions expect. *)
C1_BasicShape ==
    (api = "direct" /\ Finished) =>
        /\ Source(BasicSource) => ParsedAs(BasicExpected)
        /\ \A e \in ShapeTable :
               (e.layout = Canonical /\ Source(e.text)) => ParsedAs(e.decl)

(* C2: the parsed result does not depend on the whitespace around stars,
   commas, parentheses and the function name: every layout of a declaration
   with one-word base types gives the record of the declaration, and the
   declaration of the whitespace test gives the values its assertions expect. *)
C2_WhitespaceIndependent ==
    (api = "direct" /\ Finished) =>
        /\ Source(WhitespaceSource) => ParsedAs(WhitespaceExpected)
        /\ \A e \in ShapeTable :
               (Len(e.spec.words) = 1 /\ Source(e.text))
                   => ParsedAs(e.decl)

(* C3: in the argument list a comma splits arguments only when both nesting
   counters are zero.  While a counter is not zero no step adds an argument,
   and a comma or a whitespace character read there is appended to the token
   in progress; so an argument whose type holds commas and whitespace inside
   <...> or (...) is one argument, with the type text as written as full type
   and as base type, and pointer level 0. *)
C3_NestedTypes ==
    (api = "direct" /\ Finished) =>
        /\ \A e \in NestedTable : Source(e.text) => ParsedAs(e.decl)
        /\ Source(CppSource) =>
               /\ error = NoError
               /\ \A n \in DOMAIN all_functions :
                      all_functions[n].args[3] =
                          Arg("z", T("std::map<int, char**>", "std::map<int, char**>", 0, {}))

C3_NestedStep ==
    (pc = "args" /\ Nested(Locals)) =>
        /\ all_args' = all_args
        /\ LET n == GrabberNext(Text, Grabber)
           IN  (~ n.eof /\ (n.ch = "," \/ IsSpace(n.ch))) =>
                   /\ pc' = "args"
                   /\ current' = current \o n.ch
                   /\ chunks' = chunks

C3_NestedCommaStaysInToken == [] C3_NestedTypes /\ [][C3_NestedStep]_vars

C3_Witness ==
    /\ Succeeded
    /\ Source(NestedText("A(B<c, d>,\n(e, f))", 2))
    /\ "f" \in DOMAIN all_functions
    /\ Len(all_functions["f"].args) = 3
    /\ all_functions["f"].args[2].type.base_type = "A(B<c, d>,\n(e, f))"

(* C4: for an argument passed by reference the & is kept in the full type
   only (the base type has no & and the pointer level is 0), and a pointer to
   a template type has the template type as base type and pointer level 1,
   also when the & or the * is written against the name. *)
C4_ReferenceInFullTypeOnly ==
    (api = "direct" /\ Finished) =>
        /\ \A e \in ReferenceTable : Source(e.text) => ParsedAs(e.decl)
        /\ Source(CppSource) => ParsedAs(CppExpected)

\* a source directory: every file is one of the small files
IsDirectory == \A i \in 1..Len(files) : \E e \in SmallFiles : e.path = files[i].path

DeclsOf(f) == (CHOOSE e \in SmallFiles : e.path = f.path /\ e.text = f.text).decls

FailsIn(f) == (CHOOSE e \in SmallFiles : e.path = f.path /\ e.text = f.text).fails

Names(ds) == {ds[k].name : k \in 1..Len(ds)}

(* C5: parse_cpp_exports(files), given well-formed source files, does not fail
   and returns a dict whose keys are exactly the names of the marked
   functions. *)
C5_ExportsReturnsMarkedNames ==
    (api = "files" /\ IsDirectory /\ \A i \in 1..Len(files) : ~ FailsIn(files[i])) =>
        /\ error = NoError
        /\ (pc = "returned" =>
               DOMAIN all_functions = UNION { Names(DeclsOf(files[i])) : i \in 1..Len(files) })

\* the number of marker lines between the offsets h and upto of a text
RECURSIVE MarkersRead(_, _, _)
MarkersRead(text, h, upto) ==
    IF h >= upto THEN 0
    ELSE LET l == Readline(text, h)
         IN  (IF MatchExport(l) THEN 1 ELSE 0) + MarkersRead(text, h + Len(l), upto)

\* file i is given to parse_cpp_file when the driver comes to it
IsParsed(i) == api = "direct" \/ EndsWith(files[i].path, ".cpp")

\* the declarations of the files visited before place k of the order
RECURSIVE DeclsBefore(_)
DeclsBefore(k) ==
    IF k = 0 THEN <<>>
    ELSE DeclsBefore(k - 1) \o
         (IF IsParsed(order[k]) THEN DeclsOf(files[order[k]]) ELSE <<>>)

\* the declarations parsed so far, in processing order
Completed ==
    IF pc \in {"loop", "returned"} THEN DeclsBefore(fi - 1)
    ELSE LET m == MarkersRead(Text, 0, handle)
         IN  DeclsBefore(fi - 1) \o
             SubSeq(DeclsOf(files[order[fi]]), 1, IF pc = "scan" THEN m ELSE m - 1)

(* C6: after any sequence of successfully parsed declarations the registry
   holds one entry for each name declared so far, and the entry of a name is
   the record of the declaration with that name that was parsed last. *)
C6_LastDeclarationWins ==
    (api # "files" /\ IsDirectory) => all_functions = LastWins(Completed)

C6_Witness ==
    /\ Succeeded
    /\ api = "direct"
    /\ Len(files) = 2
    /\ files[1].path = "a.cpp"
    /\ files[2].path = "b.cpp"
    /\ all_functions = LastWins(<<DeclsOf(files[2])[1]>>)
    /\ all_functions # LastWins(<<DeclsOf(files[1])[1]>>)

(* C7: a declaration whose parameter list closes at once is parsed without
   error and recorded with an empty argument sequence. *)
C7_ZeroArguments ==
    (api = "direct" /\ Finished) =>
        \A e \in ZeroArgTable : Source(e.text) => ParsedAs(e.decl)

(* C8: when the source ends after a marker and before the closing parenthesis
   of the declaration, also inside a comment, the call fails with the
   unterminated-input error, and the error a driver raises names the source. *)
C8_TruncatedInput ==
    (Finished /\ Len(files) = 1 /\ files[1].path = "cut.cpp") =>
        /\ pc = "raised"
        /\ error.kind = "unterminated"
        /\ api # "direct" => error.source = "cut.cpp"

(* C9: a declaration that fails leaves the registry as it was when its marker
   was found: the registry changes only in the step that ends the argument
   list of a declaration without error, so no step from the marker to the
   exception changes it; a source with one marker whose declaration fails
   leaves the registry empty. *)
C9_Step ==
    (all_functions' # all_functions) =>
        (pc = "args" /\ pc' = "scan" /\ error' = NoError)

C9_SingleFailure ==
    (api # "files" /\ pc = "raised" /\ Len(files) = 1
        /\ MarkersRead(Text, 0, handle) = 1) => all_functions = EmptyDict

C9_FailureKeepsRegistry == [] C9_SingleFailure /\ [][C9_Step]_vars

C9_Witness ==
    /\ pc = "raised"
    /\ api = "direct"
    /\ error.kind = "angle"
    /\ Len(files) = 2
    /\ files[2].path = "e.cpp"
    /\ DOMAIN all_functions = {"foo", "baz"}

(* C10: tags come only from the /** ... */ comments opened while both nesting
   counters are zero, and go to the type being accumulated: a comment before
   the opening parenthesis tags the return type, a comment in the argument
   list tags the argument in progress and no other, equal tags are one tag,
   and a comment of any other kind, or one opened inside <...>, gives no tag. *)
C10_TagsOnlyFromTagComments ==
    (api = "direct" /\ Succeeded) =>
        \A e \in TagTable : Source(e.text) =>
            /\ "f" \in DOMAIN all_functions
            /\ all_functions["f"].restype.tags = e.tags.restype
            /\ Len(all_functions["f"].args) = 2
            /\ all_functions["f"].args[1].type.tags = e.tags.x
            /\ all_functions["f"].args[2].type.tags = e.tags.y

(* C11: a line comment met while a declaration is scanned, before or after
   the opening parenthesis, is read through the end of its line and adds
   nothing to the tokens or the tags, whatever follows the two slashes: the
   declaration is recorded as it is without the comment. *)
C11_LineCommentAddsNothing ==
    (api = "direct" /\ Finished) =>
        \A e \in LineCommentTable : Source(e.text) => ParsedAs(e.decl)

(* C12: a block comment that is not a tag comment (a comment opened by a slash
   and one star, or any comment opened inside <...>) is read up to the first
   star followed by a slash, also when the comment ends with two stars and a
   slash, and adds no character to the token in progress and no tag: the
   declaration is recorded as it is without the comment. *)
C12_BlockCommentAddsNothing ==
    (api = "direct" /\ Finished) =>
        \A e \in BlockCommentTable : Source(e.text) => ParsedAs(e.decl)

(* C13: a step of either loop that reads a slash raises the malformed-comment
   error exactly when the character after the slash is neither a slash nor a
   star, and no other step raises that error. *)
C13_Step ==
    LET n1 == GrabberNext(Text, Grabber)
        n2 == GrabberNext(Text, AsGrabber(n1))
        slash == pc \in {"restype", "args"} /\ ~ n1.eof /\ n1.ch = "/" /\ ~ n2.eof
        raises == pc' = "raised" /\ error'.kind = "comment"
    IN  /\ slash => (raises <=> n2.ch \notin {"/", "*"})
        /\ (raises /\ pc # "raised") => slash

C13_MalformedCommentExactly == [][C13_Step]_vars

(* C14: a declaration in which a < has no matching > or a nested ( has no
   matching ) when the parenthesis that ends its loop is reached, or in which a
   > or a nested ) has no opener, fails with the imbalance error of that
   bracket: it is never accepted and never fails with another error. *)
C14_ImbalanceError ==
    (api = "direct" /\ Finished) =>
        \A e \in ImbalancedTable :
            Source(e.text) => (pc = "raised" /\ error.kind = e.kind)

\* the declarations of the files that the driver parses, visiting them in the
\* order o up to place k
RECURSIVE DeclsIn(_, _)
DeclsIn(o, k) ==
    IF k = 0 THEN <<>>
    ELSE DeclsIn(o, k - 1) \o
         (IF IsParsed(o[k]) THEN DeclsOf(files[o[k]]) ELSE <<>>)

(* C15: the registry returned for a source directory does not depend on the
   order in which the files are enumerated: a run that succeeds returns the
   registry that every other enumeration order of the same files gives. *)
C15_OrderIndependent ==
    (api = "srcdir" /\ Succeeded /\ IsDirectory) =>
        \A o \in Orders(Len(files)) :
            all_functions = LastWins(DeclsIn(o, Len(files)))

(* C16: an argument type in which two words are separated by pointer stars is
   rejected with the pointer error however the stars are attached (a* b, a *b,
   a * b), and a type in which only const follows the stars, such as
   char* const*, is accepted with its base type and the count of its stars. *)
C16_PointerSyntax ==
    (api = "direct" /\ Finished) =>
        \A e \in PointerTable : Source(PointerText(e.type)) =>
            IF e.rejects THEN pc = "raised" /\ error.kind = "pointer"
            ELSE /\ error = NoError
                 /\ "f" \in DOMAIN all_functions
                 /\ all_functions["f"].args[2] = Arg("x", T(e.type, e.base, e.ptr, {}))

\* the character that the loops read next, or "" at the end of the file
NextCh == GrabberNext(Text, Grabber).ch

\* the next step reads a "(", "," or ")" that ends a name
AtTopLevel ==
    /\ pc \in {"restype", "args"}
    /\ ~ GrabberNext(Text, Grabber).eof
    /\ ~ Nested(Locals)
    /\ \/ pc = "restype" /\ NextCh = "("
       \/ pc = "args" /\ NextCh \in {",", ")"}

(* C17: every recorded name is non-empty.  Completed tokens are never empty;
   at a top-level "(", "," or ")" the name is the token in progress when there
   is one, else the last completed token, which is taken out of the type
   fragments; and when there is neither, the declaration fails with an error
   and registers nothing. *)
C17_Names ==
    /\ \A i \in 1..Len(chunks) : chunks[i] # ""
    /\ \A i \in 1..Len(all_args) : all_args[i].name # ""
    /\ pc = "args" => funname # ""
    /\ \A n \in DOMAIN all_functions :
           /\ n # ""
           /\ \A i \in 1..Len(all_functions[n].args) : all_functions[n].args[i].name # ""

C17_Step ==
    LET name  == IF current # "" THEN current ELSE chunks[Len(chunks)]
        frags == IF current # "" THEN chunks ELSE SubSeq(chunks, 1, Len(chunks) - 1)
        args  == IF NextCh = ")" /\ pc' = "scan"
                 THEN all_functions'[funname].args ELSE all_args'
    IN  AtTopLevel =>
            IF current = "" /\ chunks = <<>>
            THEN pc' = "raised" /\ error' # NoError /\ all_functions' = all_functions
            ELSE pc' # "raised" =>
                   IF pc = "restype"
                   THEN funname' = name /\ restype'.full_type = Join(frags)
                   ELSE /\ Len(args) = Len(all_args) + 1
                        /\ args[Len(args)].name = name
                        /\ args[Len(args)].type.full_type = Join(frags)

C17_NamesNonEmpty == [] C17_Names /\ [][C17_Step]_vars

C17_Witness ==
    /\ api = "direct"
    /\ Source(Marker \o "int foo(int x,)\n")
    /\ pc = "raised"
    /\ error.kind = "IndexError"
    /\ funname = "foo"
    /\ Len(all_args) = 1
    /\ all_args[1].name = "x"
    /\ all_functions = EmptyDict

(* C18: the two nesting counters are never negative: a > or a ) that would
   take a counter below zero raises the imbalance error instead; and when a
   loop ends without error (at the "(" that ends the first, at the ")" that
   ends the second) both counters are zero. *)
C18_Counters == angle_nesting >= 0 /\ curve_nesting >= 0

C18_Step ==
    LET reads(c) == ~ GrabberNext(Text, Grabber).eof /\ NextCh = c
    IN  /\ (pc \in {"restype", "args"} /\ reads(">") /\ angle_nesting = 0) =>
               (pc' = "raised" /\ error'.kind = "angle" /\ angle_nesting' = 0)
        /\ (pc = "restype" /\ reads(")") /\ curve_nesting = 0) =>
               (pc' = "raised" /\ error'.kind = "parens" /\ curve_nesting' = 0)
        /\ ((pc = "restype" /\ pc' = "args") \/ (pc = "args" /\ pc' = "scan")) =>
               /\ angle_nesting = 0 /\ curve_nesting = 0
               /\ angle_nesting' = 0 /\ curve_nesting' = 0

C18_CountersNonNegative == [] C18_Counters /\ [][C18_Step]_vars

C18_Witness ==
    /\ api = "direct"
    /\ Source(Marker \o "int f(int> x) {}\n")
    /\ pc = "raised"
    /\ error.kind = "angle"
    /\ funname = "f"
    /\ current = "int"
    /\ angle_nesting = 0

(* C19: a declaration parsed without error has one argument for each
   top-level comma of its argument list and one more, in the order of the
   source, and each argument has its own tokens and tags and none of its
   neighbours': token in progress, completed tokens and tags are reset at every
   top-level comma. *)
C19_Arguments ==
    (api = "direct" /\ Finished) =>
        \A e \in ArgsTable : Source(e.text) =>
            /\ ParsedAs(e.decl)
            /\ Len(all_functions["f"].args) = e.commas + 1

C19_Step ==
    LET comma == AtTopLevel /\ pc = "args" /\ NextCh = ","
    IN  /\ (comma /\ pc' # "raised") =>
               /\ Len(all_args') = Len(all_args) + 1
               /\ SubSeq(all_args', 1, Len(all_args)) = all_args
               /\ current' = "" /\ chunks' = <<>> /\ tags' = <<>>
        /\ (~ comma /\ pc' \notin {"scan", "restype"}) => all_args' = all_args
        /\ (pc = "args" /\ pc' = "scan") =>
               /\ Len(all_functions'[funname].args) = Len(all_args) + 1
               /\ SubSeq(all_functions'[funname].args, 1, Len(all_args)) = all_args

C19_OneArgumentPerComma == [] C19_Arguments /\ [][C19_Step]_vars

C19_Witness ==
    /\ Succeeded
    /\ Source(Marker \o "int /** r */ f(/** v w */ D** d, C<d, e> c, const B* b /** u */) {}\n")
    /\ "f" \in DOMAIN all_functions
    /\ Len(all_functions["f"].args) = 3
    /\ all_functions["f"].args[1].type.tags = {"v", "w"}
    /\ all_functions["f"].args[2].type.tags = {}
    /\ all_functions["f"].args[3].type.tags = {"u"}

(* C20: a type text gives the same full type, base type and pointer level as
   the return type and as the type of an argument, also when it holds
   whitespace inside <...>. *)
C20_PhasesAgree ==
    (api = "direct" /\ Succeeded) =>
        \A t \in PhaseTypes : Source(PhaseText(t)) =>
            /\ "f" \in DOMAIN all_functions
            /\ LET r == all_functions["f"].restype
                   a == all_functions["f"].args[1].type
               IN  /\ r.full_type = a.full_type
                   /\ r.base_type = a.base_type
                   /\ r.pointer_level = a.pointer_level

\* a loop of parse_cpp_file or of parse_comment is running
Scanning ==
    pc \in {"restype", "args", "line_comment", "tag_comment", "block_comment"}

(* C21: get() returns the character that next() returned last and consumes
   nothing; when parse_comment is entered, after the loop has read a slash and
   one more character, get() returns that character, and it never reads past
   the end of the line. *)
C21_GetReturnsLastRead ==
    /\ (pc \in {"restype", "args"} /\ position >= 1) =>
           /\ ~ GrabberGetFails(Grabber)
           /\ GrabberGet(Grabber) = Ch(line, position)
    /\ pc \in {"restype", "args"} =>
           LET n1 == GrabberNext(Text, Grabber)
               n2 == GrabberNext(Text, AsGrabber(n1))
           IN  (~ n1.eof /\ n1.ch = "/" /\ ~ n2.eof) =>
                   /\ ~ GrabberGetFails(AsGrabber(n2))
                   /\ GrabberGet(AsGrabber(n2)) = n2.ch

\* the number of characters of the file that the cursor has returned
Offset == handle - Len(line) + position

(* C22: next() returns the characters of the text after the marker line one
   by one, in order and across the ends of lines, skipping and repeating none;
   the next() after a next() and a back() returns the same character again;
   and the position stays within 0..len(line), back() being called at most
   once after a next(). *)
C22_Cursor ==
    Scanning =>
        /\ position \in 0..Len(line)
        /\ Offset \in 0..Len(Text)
        /\ line = SubSeq(Text, handle - Len(line) + 1, handle)
        /\ LET n == GrabberNext(Text, Grabber)
           IN  /\ n.eof <=> Offset = Len(Text)
               /\ ~ n.eof =>
                      /\ n.ch = Ch(Text, Offset + 1)
                      /\ n.handle - Len(n.line) + n.position = Offset + 1
                      /\ n.position \in 1..Len(n.line)
                      /\ GrabberNext(Text, GrabberBack(AsGrabber(n))) = n

C22_Step ==
    /\ (pc = "scan" /\ pc' = "restype") =>
           /\ Offset' = handle'
           /\ MatchExport(SubSeq(Text, handle + 1, handle'))
    /\ (Scanning /\ pc' \notin {"raised", "scan"}) =>
           /\ Offset' > Offset
           /\ Offset' - Offset <= 3

C22_CursorStream == [] C22_Cursor /\ [][C22_Step]_vars

C22_Witness ==
    /\ api = "direct"
    /\ Source(Marker \o "int f(int x /** t*u **/, int y)\n")
    /\ pc = "tag_comment"
    /\ curtag = "t*"
    /\ Ch(line, position + 1) = "u"
    /\ Offset = 31

(* The declarations on which every state before the end is checked to have a
   step that changes it: each family that enters a loop of the scanners *)
TerminationWorkloads ==
    CommentSources \cup SlashSources \cup ImbalancedSources \cup NameSources
    \cup StarTagSources \cup TrailerSources

\* the characters of the files at the places k.. of the order, and three
\* steps for each file (open it, find its end, go on to the next)
RECURSIVE Unread(_)
Unread(k) ==
    IF k > Len(order) THEN 0
    ELSE Len(files[order[k]].text) + 3 + Unread(k + 1)

\* a bound on the number of steps the run can still take
Rank ==
    IF Finished THEN 0
    ELSE IF pc = "loop" THEN 1 + Unread(fi)
    ELSE Unread(fi + 1) + 2 + Len(Text) - (IF pc = "scan" THEN handle ELSE Offset)

(* C23: parsing a finite text terminates.  Every iteration of a loop of the
   declaration scanner or of the comment scanner that does not raise leaves
   the cursor at least one character further, and an iteration at the end of
   the text raises the unterminated-input error; so the number of steps a run
   can still take, bounded by the characters not yet read, falls with every
   step, and before the call has returned or raised there is always a step
   that changes the state. *)
C23_Progress ==
    /\ Rank \in Nat
    /\ (~ Finished /\ files \in TerminationWorkloads) => ENABLED <<Next>>_vars

C23_Step ==
    /\ Rank' < Rank
    /\ Scanning =>
           /\ pc' # "raised" => Offset' > Offset
           /\ Offset = Len(Text) => (pc' = "raised" /\ error'.kind = "unterminated")

C23_Terminates == [] C23_Progress /\ [][C23_Step]_vars

C23_Witness ==
    /\ api = "direct"
    /\ Source(Marker \o "int f(int x /** t*u **/, int y)\n")
    /\ Succeeded
    /\ Rank = 0
    /\ "f" \in DOMAIN all_functions
    /\ all_functions["f"].args[1].type.tags = {"t*u", "*"}

\* the declarations of a source of TrailerSources that are parsed so far
TrailersDone ==
    IF pc \in {"loop", "returned"} THEN (IF fi > 1 THEN 2 ELSE 0)
    ELSE IF pc = "scan" THEN MarkersRead(Text, 0, handle)
    ELSE MarkersRead(Text, 0, handle) - 1

(* C24: the scan of a declaration stops at its closing top-level parenthesis.
   The step that reads it enters the record, and no later step changes the
   registry before the closing parenthesis of another declaration; the search
   for markers goes on with the line after the one that holds the
   parenthesis, so the rest of that line and the body are never scanned; and a
   source with two marked declarations gets the entry of the first and then
   that of the second, whatever follows each of them. *)
C24_Bodies ==
    (api = "direct" /\ Len(files) = 1 /\ files[1].path = "bodies.cpp") =>
        /\ error = NoError
        /\ all_functions = LastWins(SubSeq(TrailerDecls, 1, TrailersDone))

C24_Step ==
    /\ (pc = "args" /\ pc' = "scan") =>
           /\ Ch(Text, Offset') = ")"
           /\ handle' = LineEnd(Text, Offset')
           /\ funname \in DOMAIN all_functions'
           /\ all_functions'[funname].restype = restype
           /\ SubSeq(all_functions'[funname].args, 1, Len(all_args)) = all_args
    /\ (pc = "scan" /\ pc' = "scan") =>
           /\ all_functions' = all_functions
           /\ handle' = LineEnd(Text, handle + 1)
    /\ (all_functions' # all_functions) => (pc = "args" /\ pc' = "scan")

C24_StopsAtClosingParenthesis == [] C24_Bodies /\ [][C24_Step]_vars

C24_Witness ==
    /\ Succeeded
    /\ api = "direct"
    /\ Source(TrailerText(" //[[export]]\n", "\n{\n  if (a > b) )<\n}\n"))
    /\ all_functions = LastWins(TrailerDecls)

====
